---- MODULE Spec2Model ----
(***************************************************************************)
(* The tool-calling agent of src/agent.py (AIAgent.chat and its helpers),  *)
(* the tool registry of src/base_tool.py and the tools that                *)
(* src/tools.py registers, as a state machine.  One chat call is split at  *)
(* its suspension points: the model query and each tool dispatch.          *)
(***************************************************************************)
EXTENDS Integers, Sequences, FiniteSets, TLC

(***************************************************************************)
(* Bounds of the exploration.                                              *)
(***************************************************************************)
\* tool-call requests in one model response
MaxCalls == 2
\* rows in one query result, records in one data argument
MaxRows == 2
\* invocations per session, when the model draws its requests from the whole
\* of Requests
MaxInv == 2
\* invocations per session, when the model draws them from PlainRequests
MaxPlain == 10
\* chat calls per session
MaxChats == 2
\* requests the API receives, when the model draws from ApiRequests
MaxOps == 3
\* registered tools of the sessions whose registry size is drawn freely
MaxTools == 44
\* register calls made on one registry
MaxRegs == 3

(***************************************************************************)
(* Tool descriptors: src/tools.py, src/excel_tool.py.                      *)
(***************************************************************************)
Req(n) == [name |-> n, required |-> TRUE]
Opt(n) == [name |-> n, required |-> FALSE]

Tool(k, ps) == [kind |-> k, params |-> ps]

VolumeParams ==
    << Req("BillerID"), Req("InvoiceTypeID"), Req("StartDate"), Req("EndDate") >>

\* ExcelExportTool.get_parameters
ExcelExportParams == << Req("data"), Opt("filename"), Opt("sheet_name") >>

\* ExcelExportFromQueryTool.get_parameters
QueryToExcelParams == << Req("query"), Opt("filename") >>

\* setup_tools: the registry every agent is constructed with
SetupTools ==
    ( "CustomerProfileSummary" :>
        Tool("sp", << Req("CustomerID"), Opt("BillerUserID"),
                      Opt("ShowInactiveInvoices") >>) ) @@
    ( "SearchInvoices" :>
        Tool("sp", << Req("BillerID"), Opt("AccountNumber"), Opt("CustomerName"),
                      Opt("InvoiceNumber"), Opt("InvoiceTypeID"),
                      Opt("Outstanding") >>) ) @@
    ( "SearchCustomers" :>
        Tool("sp", << Req("BillerID"), Opt("AccountNumber"), Opt("CustomerName"),
                      Opt("EmailAddress"), Opt("InvoiceNumber") >>) ) @@
    ( "SearchPayments" :>
        Tool("sp", << Req("BillerID"), Opt("AccountNumber"), Opt("CustomerName"),
                      Opt("ApprovalInd"), Opt("InvoiceNumber") >>) ) @@
    ( "GetInvoiceCountAndVolume" :> Tool("sp", VolumeParams) ) @@
    ( "GetPaymentACHVolume" :> Tool("sp", VolumeParams) ) @@
    ( "GetPaymentACHCount" :> Tool("sp", VolumeParams) ) @@
    ( "GetPaymentCreditCardVolume" :> Tool("sp", VolumeParams) ) @@
    ( "GetPaymentCreditCardCount" :> Tool("sp", VolumeParams) ) @@
    ( "GetPaymentOnlineBankDirectCountAndVolume" :> Tool("sp", VolumeParams) ) @@
    ( "GetPaymentCOUNTANDVolumeByPaymentSource" :>
        Tool("sp", VolumeParams \o << Req("PaymentSourceID") >>) ) @@
    ( "GetInvoiceTypes" :> Tool("query", << >>) ) @@
    ( "GetPaymentSources" :> Tool("query", << >>) ) @@
    ( "ExportToExcel" :> Tool("excel", ExcelExportParams) ) @@
    ( "QueryToExcel" :> Tool("excelquery", QueryToExcelParams) )

\* ToolRegistry.list_tools
ListTools(tools) == DOMAIN tools

\* the order in which setup_tools registers the tools
RegistrationOrder ==
    << "CustomerProfileSummary", "SearchInvoices", "SearchCustomers",
       "SearchPayments", "GetInvoiceCountAndVolume", "GetPaymentACHVolume",
       "GetPaymentACHCount", "GetPaymentCreditCardVolume",
       "GetPaymentCreditCardCount", "GetPaymentOnlineBankDirectCountAndVolume",
       "GetPaymentCOUNTANDVolumeByPaymentSource", "GetInvoiceTypes",
       "GetPaymentSources", "ExportToExcel", "QueryToExcel" >>

\* the registry after the first n register calls of setup_tools
FirstTools(n) ==
    [t \in {RegistrationOrder[i] : i \in 1..n} |-> SetupTools[t]]

(***************************************************************************)
(* Values.  A raw row of the database is a tuple of column values; the     *)
(* cursor describes its columns.  A tool returns a list of rows or a       *)
(* mapping, or raises.                                                     *)
(***************************************************************************)
Columns == << "c1" >>

Min(a, b) == IF a < b THEN a ELSE b
Max(a, b) == IF a > b THEN a ELSE b

\* dict(zip(columns, row)): zip stops at the shorter side, and of two columns
\* of one name the later one keeps its value
DictZip(cols, row) ==
    LET n == Min(Len(cols), Len(row))
    IN  [c \in {cols[i] : i \in 1..n} |->
            row[CHOOSE i \in 1..n :
                    cols[i] = c /\ \A j \in (i + 1)..n : cols[j] # c]]

ListValue(rows) == [type |-> "list", rows |-> rows, success |-> FALSE, n |-> 0]
DictValue(ok, n) == [type |-> "dict", rows |-> << >>, success |-> ok, n |-> n]

Returned(v, inv) ==
    [raised |-> FALSE, error |-> "", arg |-> "", value |-> v, invoked |-> inv]
Raised(e, a, inv) ==
    [raised |-> TRUE, error |-> e, arg |-> a, value |-> ListValue(<< >>),
     invoked |-> inv]

\* kwargs.get('data', []), as the rows a DataFrame makes of it
GetData(kwargs) == IF "data" \in kwargs.keys THEN kwargs.data ELSE << >>

\* the truth value of kwargs.get('data', [])
Truthy(kwargs) == "data" \in kwargs.keys /\ kwargs.truthy

(***************************************************************************)
(* src/base_tool.py: validation and dispatch.                              *)
(***************************************************************************)
\* the required parameters that kwargs lacks, in descriptor order
MissingRequired(params, keys) ==
    SelectSeq(params, LAMBDA p : p.required /\ p.name \notin keys)

\* BaseTool.validate_parameters: the name in the ValueError it raises, "" if
\* it returns
ValidateParameters(params, keys) ==
    IF MissingRequired(params, keys) = << >> THEN ""
    ELSE Head(MissingRequired(params, keys)).name

\* ExcelExportTool.execute: falsy data (line 69), or (lines 98-102) a
\* workbook that could not be written, gives a mapping with success False
\* and no rows_exported; otherwise rows_exported is len(df)
ExcelExecute(kwargs, out) ==
    IF ~Truthy(kwargs) THEN DictValue(FALSE, 0)
    ELSE IF out.write THEN DictValue(TRUE, Len(GetData(kwargs)))
    ELSE DictValue(FALSE, 0)

\* ExcelExportFromQueryTool.execute: the handler of lines 184-188 covers the
\* query and the write alike
QueryToExcelExecute(out) ==
    IF out.raise \/ out.rows = << >> \/ ~out.write THEN DictValue(FALSE, 0)
    ELSE DictValue(TRUE, Len(out.rows))

\* DatabaseConnection.execute_query, as the tools use it: out is what the
\* database does with the query
ExecuteQuery(out) ==
    IF out.raise THEN Raised("exec", "", TRUE)
    ELSE Returned(ListValue(out.rows), TRUE)

\* the execute method of the tool classes
ToolExecute(tool, kwargs, out) ==
    CASE tool.kind = "sp" -> ExecuteQuery(out)
      [] tool.kind = "query" ->
            IF kwargs.keys \subseteq {"params"} THEN ExecuteQuery(out)
            ELSE Raised("exec", "", TRUE)
      [] tool.kind = "excel" -> Returned(ExcelExecute(kwargs, out), TRUE)
      [] tool.kind = "excelquery" -> Returned(QueryToExcelExecute(out), TRUE)

\* the parameters of ToolRegistry.execute itself: a keyword argument of one
\* of these names makes the call of execute(tool_name, **kwargs) a TypeError
ReservedKeys == {"self", "tool_name"}

\* ToolRegistry.execute, as chat calls it: execute(function_name,
\* **function_args)
RegistryExecute(tools, name, kwargs, out) ==
    IF kwargs.keys \cap ReservedKeys # {} THEN Raised("exec", "", FALSE)
    ELSE IF name \notin DOMAIN tools THEN Raised("not_found", name, FALSE)
    ELSE IF ValidateParameters(tools[name].params, kwargs.keys) # ""
    THEN Raised("missing_parameter",
                ValidateParameters(tools[name].params, kwargs.keys), FALSE)
    ELSE ToolExecute(tools[name], kwargs, out)

\* ToolRegistry.get_all_function_definitions, as chat uses it: its length
FunctionCount(tools, extraTools) == Cardinality(DOMAIN tools) + extraTools

(***************************************************************************)
(* src/base_tool.py: the registry as register builds it, and the function  *)
(* definitions.  ToolRegistry.tools is a dict: its items are kept in the   *)
(* order their keys were first inserted.                                   *)
(***************************************************************************)
Item(name, tool) == [name |-> name, tool |-> tool]

\* the keys of a dict, in order
Keys(d) == [i \in 1..Len(d) |-> d[i].name]

\* d[k] = v, were an assignment to a key the dict holds to leave its value
DictSetFirstWins(d, k, v) ==
    IF \E i \in 1..Len(d) : d[i].name = k THEN d
    ELSE Append(d, Item(k, v))

\* d[k] = v
DictSet(d, k, v) ==
    IF \E i \in 1..Len(d) : d[i].name = k
    THEN [i \in 1..Len(d) |-> IF d[i].name = k THEN Item(k, v) ELSE d[i]]
    ELSE Append(d, Item(k, v))

\* the mapping of tool names to tools that ToolRegistry.get reads
ToolsOf(d) ==
    [n \in {d[i].name : i \in 1..Len(d)} |->
        d[CHOOSE i \in 1..Len(d) : d[i].name = n].tool]

\* to_function_definition: properties after the first n parameters; a
\* property is told by the position of the parameter it describes
RECURSIVE Properties(_, _)
Properties(params, n) ==
    IF n = 0 THEN << >>
    ELSE LET properties == Properties(params, n - 1)
         IN  [k \in DOMAIN properties \cup {params[n].name} |->
                IF k = params[n].name THEN n ELSE properties[k]]

\* to_function_definition: required after the first n parameters
RECURSIVE Required(_, _)
Required(params, n) ==
    IF n = 0 THEN << >>
    ELSE IF params[n].required
    THEN Append(Required(params, n - 1), params[n].name)
    ELSE Required(params, n - 1)

\* to_function_definition, were it to list every parameter as required
ToFunctionDefinitionAllRequired(name, params) ==
    [name |-> name,
     properties |-> Properties(params, Len(params)),
     required |-> [i \in 1..Len(params) |-> params[i].name]]

\* BaseTool.to_function_definition
ToFunctionDefinition(name, params) ==
    [name |-> name,
     properties |-> Properties(params, Len(params)),
     required |-> Required(params, Len(params))]

\* ToolRegistry.get_all_function_definitions
GetAllFunctionDefinitions(d) ==
    [i \in 1..Len(d) |-> ToFunctionDefinition(d[i].name, d[i].tool.params)]

\* tools registered on top of setup_tools: one of a new name whose optional
\* parameter comes first, and two under names setup_tools has used
CustomTools ==
    { Item("Custom", Tool("sp", << Opt("units"), Req("city"), Opt("lang"),
                                   Req("date") >>)),
      Item("SearchCustomers", Tool("query", << >>)),
      Item("ExportToExcel", Tool("sp", << Opt("filename"), Req("BillerID") >>)) }

\* tools of setup_tools, one for each shape of descriptor
SampleTools ==
    { "CustomerProfileSummary", "SearchInvoices", "SearchCustomers",
      "GetInvoiceCountAndVolume", "GetPaymentCOUNTANDVolumeByPaymentSource",
      "GetInvoiceTypes", "ExportToExcel", "QueryToExcel" }

\* the register calls a process makes
Registrations ==
    {Item(n, SetupTools[n]) : n \in SampleTools} \cup CustomTools

(***************************************************************************)
(* src/agent.py: the helpers of chat.                                      *)
(***************************************************************************)
\* max_iterations of chat, were the division rounded up
MaxIterationsCeiling(n) == Min(10, Max(5, (n + 3) \div 4))

\* max_iterations of chat
MaxIterations(n) == Min(10, Max(5, n \div 4))

Content(tag, rows, ok, n, arg) ==
    [tag |-> tag, rows |-> rows, success |-> ok, n |-> n, arg |-> arg]

\* AIAgent._format_results
FormatResults(v) ==
    IF v.type = "list" /\ v.rows = << >>
    THEN Content("no_results", << >>, FALSE, 0, "")
    ELSE IF v.type = "dict"
    THEN Content("dict", << >>, v.success, v.n, "")
    ELSE Content("rows", [i \in 1..Len(v.rows) |-> DictZip(Columns, v.rows[i])],
                 FALSE, 0, "")

\* f"Error executing {function_name}: {str(e)}"
ErrorContent(r) == Content(r.error, << >>, FALSE, 0, r.arg)

\* lines 145-146: a row cached as it is
Bare(row) == [raw |-> row]

\* lines 132-148: the records cached for the rows a tool returned.  Line 134
\* chooses by the row: one that has __iter__ becomes dict(zip(columns, row))
\* with the columns of the cursor (which describes the rows it has just
\* fetched), any other row is kept as it is.  Whether the rows of the
\* driver have __iter__ is iter
CacheRecords(rows, iter) ==
    [i \in 1..Len(rows) |->
        IF iter THEN DictZip(Columns, rows[i]) ELSE Bare(rows[i])]

\* lines 128-149 of chat: the cache after a tool returned value v
CacheUpdate(cache, name, v, iter) ==
    IF v.type = "list" /\ Len(v.rows) > 0 /\ name # "ExportToExcel"
    THEN CacheRecords(v.rows, iter)
    ELSE cache

\* lines 151-163 of chat: whether the cached records replace the data argument
\* and the export tool is executed again.  Line 154 takes any falsy data,
\* line 158 a list only
ExportFallback(name, kwargs, cache) ==
    /\ name = "ExportToExcel"
    /\ \/ ~Truthy(kwargs) /\ cache # << >>
       \/ /\ Truthy(kwargs)
          /\ kwargs.list
          /\ cache # << >>
          /\ Len(GetData(kwargs)) < Len(cache)

\* function_args['data'] = self.last_query_results
WithData(kwargs, records) ==
    [keys |-> kwargs.keys \cup {"data"}, data |-> records, list |-> TRUE,
     truthy |-> records # << >>]

\* json.loads(tool_call.function.arguments): it raises when the text is not
\* JSON, and returns a mapping for a JSON object only
Decode(arguments) ==
    [ok |-> arguments.json # "malformed",
     mapping |-> arguments.json = "object",
     kwargs |-> [keys |-> IF arguments.json = "object" THEN arguments.keys ELSE {},
                 data |-> arguments.data, list |-> arguments.list,
                 truthy |-> arguments.truthy]]

\* lines 115-116, outside the try block: for an ExportToExcel call chat tests
\* 'data' in function_args and then subscripts function_args['data'].  The
\* test raises on a value that is no container, the subscript on a list or a
\* string that holds 'data'
LogRaises(name, arguments) ==
    /\ name = "ExportToExcel"
    /\ \/ arguments.json = "scalar"
       \/ arguments.json = "array" /\ "data" \in arguments.keys

\* the tool call gets to the try block of line 121
EntersTry(call) ==
    Decode(call.arguments).ok /\ ~LogRaises(call.name, call.arguments)

\* one executor invocation, as the log of a dispatch records it
Exec(name, kwargs) ==
    [tool |-> name, keys |-> kwargs.keys, data |-> GetData(kwargs),
     truthy |-> Truthy(kwargs)]

ExecLog(r, name, kwargs) == IF r.invoked THEN << Exec(name, kwargs) >> ELSE << >>

\* lines 121-179 of chat, were any_success set only for a list that is not
\* empty or a mapping that reports success
InvokeSuccessByValue(tools, cache, name, kwargs, out) ==
    LET r1 == RegistryExecute(tools, name, kwargs, out)
        c1 == IF r1.raised THEN cache
              ELSE CacheUpdate(cache, name, r1.value, out.iter)
        again == ~r1.raised /\ ExportFallback(name, kwargs, c1)
        kw2 == WithData(kwargs, c1)
        r2 == IF again THEN RegistryExecute(tools, name, kw2, out) ELSE r1
    IN  [cache |-> c1,
         content |-> IF r2.raised THEN ErrorContent(r2) ELSE FormatResults(r2.value),
         success |-> /\ ~r2.raised
                     /\ FormatResults(r2.value).tag # "no_results"
                     /\ r2.value.type = "dict" => r2.value.success,
         first |-> r1,
         execs |-> ExecLog(r1, name, kwargs) \o
                   (IF again THEN ExecLog(r2, name, kw2) ELSE << >>)]

\* lines 121-179 of chat, were line 163 not to assign results: the tool
\* message reports the first execution
InvokeReportsFirst(tools, cache, name, kwargs, out) ==
    LET r1 == RegistryExecute(tools, name, kwargs, out)
        c1 == IF r1.raised THEN cache
              ELSE CacheUpdate(cache, name, r1.value, out.iter)
        again == ~r1.raised /\ ExportFallback(name, kwargs, c1)
        kw2 == WithData(kwargs, c1)
        r2 == IF again THEN RegistryExecute(tools, name, kw2, out) ELSE r1
    IN  [cache |-> c1,
         content |-> IF r1.raised THEN ErrorContent(r1) ELSE FormatResults(r1.value),
         success |-> ~r2.raised,
         first |-> r1,
         execs |-> ExecLog(r1, name, kwargs) \o
                   (IF again THEN ExecLog(r2, name, kw2) ELSE << >>)]

\* lines 121-179 of chat: the try block and its handler for one tool call
\* whose arguments were decoded
Invoke(tools, cache, name, kwargs, out) ==
    LET r1 == RegistryExecute(tools, name, kwargs, out)
        c1 == IF r1.raised THEN cache
              ELSE CacheUpdate(cache, name, r1.value, out.iter)
        again == ~r1.raised /\ ExportFallback(name, kwargs, c1)
        kw2 == WithData(kwargs, c1)
        r2 == IF again THEN RegistryExecute(tools, name, kw2, out) ELSE r1
    IN  [cache |-> c1,
         content |-> IF r2.raised THEN ErrorContent(r2) ELSE FormatResults(r2.value),
         success |-> ~r2.raised,
         first |-> r1,
         execs |-> ExecLog(r1, name, kwargs) \o
                   (IF again THEN ExecLog(r2, name, kw2) ELSE << >>)]

\* `**function_args` of line 125 on decoded arguments that are no mapping
NotAMapping == Raised("exec", "", FALSE)

\* lines 121-179 of chat for decoded arguments of any kind
Try(tools, cache, name, d, out) ==
    IF d.mapping THEN Invoke(tools, cache, name, d.kwargs, out)
    ELSE [cache |-> cache, content |-> ErrorContent(NotAMapping),
          success |-> FALSE, first |-> NotAMapping, execs |-> << >>]

(***************************************************************************)
(* What the model and the executors may do: the inputs of the exploration. *)
(***************************************************************************)
\* the arguments text of a tool call: a JSON object with its keys and its
\* data, a JSON array or string with the strings it holds, a JSON null,
\* number or boolean, or a text that is not JSON
\* The data of an object is a list of records, truthy when it holds one, or
\* (ObjectNoList) a value that is no list, held as the rows a DataFrame
\* makes of it and its truth value: {"c1": []} is truthy and has no rows,
\* null is falsy
Object(keys, data) ==
    [json |-> "object", keys |-> keys, data |-> data, list |-> TRUE,
     truthy |-> data # << >>]
ObjectNoList(keys, data, truthy) ==
    [json |-> "object", keys |-> keys, data |-> data, list |-> FALSE,
     truthy |-> truthy]
Array(elements) ==
    [json |-> "array", keys |-> elements, data |-> << >>, list |-> TRUE,
     truthy |-> FALSE]
Scalar ==
    [json |-> "scalar", keys |-> {}, data |-> << >>, list |-> TRUE,
     truthy |-> FALSE]
Malformed ==
    [json |-> "malformed", keys |-> {}, data |-> << >>, list |-> TRUE,
     truthy |-> FALSE]

\* a record the model writes into a data argument
ModelRecord == DictZip(Columns, << 0 >>)

\* n rows of the database
QueryRows(n) == [i \in 1..n |-> << i >>]

\* what the executor of a request meets: the query raises, or the database
\* answers rows, which have __iter__ or are sequences without it; a workbook
\* can be written, or it cannot
Fails == [raise |-> TRUE, rows |-> << >>, write |-> TRUE, iter |-> TRUE]
Answers(rows) == [raise |-> FALSE, rows |-> rows, write |-> TRUE, iter |-> TRUE]
Unwritable(rows) ==
    [raise |-> FALSE, rows |-> rows, write |-> FALSE, iter |-> TRUE]
AnswersBare(rows) ==
    [raise |-> FALSE, rows |-> rows, write |-> TRUE, iter |-> FALSE]

NoRows == Answers(<< >>)

Outcomes ==
    {Fails} \cup {Answers(QueryRows(n)) : n \in 0..MaxRows}

Request(name, arguments, out) == [name |-> name, arguments |-> arguments, out |-> out]

\* a tool the registry does not hold
NoSuchTool == Request("NoSuchTool", Object({}, << >>), NoRows)

\* the requests of the sessions that run long
PlainRequests == {NoSuchTool}

\* every tool-call request of the exploration, each with what its executor
\* does when it is invoked
Requests ==
    PlainRequests
    \cup {Request("GetInvoiceTypes", Object({}, << >>), NoRows)}
    \cup {Request("SearchCustomers", Malformed, NoRows)}
    \cup {Request("SearchCustomers", Object({}, << >>), NoRows)}
    \cup {Request("SearchCustomers", Object({"BillerID"}, << >>), o) : o \in Outcomes}
    \cup {Request("GetInvoiceCountAndVolume",
                  Object({"BillerID", "StartDate"}, << >>), NoRows)}
    \cup {Request("ExportToExcel", Object({"filename"}, << >>), NoRows)}
    \cup {Request("ExportToExcel",
                  Object({"data"}, [i \in 1..d |-> ModelRecord]), NoRows) :
          d \in 0..MaxRows}
    \cup {Request("QueryToExcel", Object({"query"}, << >>), o) :
          o \in {Fails, Answers(QueryRows(1))}}

\* requests that fail where no tool is at fault: arguments that are JSON but
\* no object, an argument named like a parameter of ToolRegistry.execute, a
\* workbook that cannot be written; and a query that fills the cache
OddRequests ==
    {Request("SearchCustomers", Object({"BillerID"}, << >>), Answers(QueryRows(2))),
     Request("SearchCustomers", Object({"BillerID", "tool_name"}, << >>),
             Answers(QueryRows(1))),
     Request("SearchCustomers", Object({"tool_name"}, << >>), NoRows),
     Request("NoSuchTool", Object({"tool_name"}, << >>), NoRows),
     Request("GetInvoiceTypes", Array({}), Answers(QueryRows(1))),
     Request("NoSuchTool", Array({}), NoRows),
     Request("ExportToExcel", Scalar, NoRows),
     Request("ExportToExcel", Array({"data"}), NoRows),
     Request("ExportToExcel", Object({"data"}, << ModelRecord >>), Unwritable(<< >>)),
     Request("QueryToExcel", Object({"query"}, << >>), Unwritable(QueryRows(1)))}

\* a query that fills the cache, and exports whose data is a list beside an
\* argument named like a parameter of ToolRegistry.execute, or is no list:
\* a mapping of one row, a mapping without rows, a null
DataRequests ==
    {Request("SearchCustomers", Object({"BillerID"}, << >>), Answers(QueryRows(2))),
     Request("ExportToExcel", Object({"data", "tool_name"}, << ModelRecord >>),
             NoRows),
     Request("ExportToExcel", ObjectNoList({"data"}, << ModelRecord >>, TRUE),
             NoRows),
     Request("ExportToExcel", ObjectNoList({"data"}, << >>, TRUE), NoRows),
     Request("ExportToExcel", ObjectNoList({"data"}, << >>, FALSE), NoRows)}

\* the requests of a session whose driver gives rows without __iter__: a
\* query, and exports that read what it left in the cache
BareRequests ==
    {Request("SearchCustomers", Object({"BillerID"}, << >>), AnswersBare(QueryRows(n))) :
        n \in 1..MaxRows}
    \cup {Request("ExportToExcel",
                  Object({"data"}, [i \in 1..d |-> ModelRecord]), AnswersBare(<< >>)) :
          d \in 0..1}

\* the requests of the sessions behind the API: a query that fills the cache
\* and an export that reads it
ApiRequests ==
    {Request("SearchCustomers", Object({"BillerID"}, << >>), Answers(QueryRows(1))),
     Request("ExportToExcel", Object({"data"}, << >>), NoRows)}

\* the request of the sessions that requests of several billers reach: a
\* query
RouteRequests ==
    {Request("SearchCustomers", Object({"BillerID"}, << >>), Answers(QueryRows(1)))}

\* what the executors of calls may meet when the calls are dispatched a
\* second time: for each call, any outcome the menu m has for its request
Again(m, calls) ==
    {o \in [1..Len(calls) -> {r.out : r \in m}] :
        \A i \in 1..Len(calls) :
            \E r \in m : /\ r.name = calls[i].name
                         /\ r.arguments = calls[i].arguments
                         /\ r.out = o[i]}

\* the responses with tool calls the model may give: up to MaxCalls requests
\* of the menu, and no more than the f invocations the session has left
Responses(menu, f) == UNION {[1..k -> menu] : k \in 1..Min(MaxCalls, f)}

(***************************************************************************)
(* The state of one agent (one session).                                   *)
(***************************************************************************)
VARIABLES
    registered,     \* tool_registry.tools: the first tools of setup_tools
    extra,          \* registered tools the model never asks for
    history,        \* conversation_history
    cache,          \* last_query_results
    pc,             \* "idle", or where chat stands: "loop", "tools"
    iteration, max_iterations, consecutive_no_progress, any_success,
    response,       \* the local response of chat: bound or not, its tool calls
    outs,           \* what the executors of the calls of the round will meet
    idx,            \* the tool call the for loop is at
    result,         \* how the last chat call ended
    plain,          \* the model draws its requests from PlainRequests
    allowance,      \* invocations left to the session
    chatsLeft,      \* chat calls left to the session
    nextId,         \* the next invocation id the model hands out
    queries,        \* model queries made by the current chat call
    failed,         \* a model query of the current chat call raised
    streak,         \* rounds in a row, in this call, without a success
    inv,            \* the last tool call dispatched and what it did
    lastRows,       \* rows of the last non-export call that returned some
    menu,           \* the tool-call requests the model draws from
    script,         \* what the user and the model did since the agent was
                    \* created or reset, in order
    origin,         \* the roles of the history and the script at the first
                    \* reset of the agent
    connected,      \* db_connection.connection is open
    biller_id,      \* db_connection.biller_id: the shard the tools query
    self,           \* the session id of the agent the variables above hold
    agent_sessions, \* the session ids agent_sessions holds
    parked,         \* the agents of agent_sessions other than self
    connections,    \* database connections open in the process
    created,        \* agents created by get_agent
    opsLeft,        \* requests the API has yet to receive
    lastOp,         \* the last request the API received
    deleted,        \* the session ids delete_session has removed
    billers,        \* the biller ids the requests carry
    registry,       \* ToolRegistry.tools of a registry under construction
    registrations   \* the register calls made on it, in order

\* tool_registry.tools
Registry == FirstTools(registered)

vars == << registered, extra, history, cache, pc, iteration, max_iterations,
           consecutive_no_progress, any_success, response, outs, idx, result,
           plain, allowance, chatsLeft, nextId, queries, failed, streak, inv,
           lastRows, menu, script, origin, connected, biller_id, self,
           agent_sessions,
           parked, connections, created, opsLeft, lastOp, deleted,
           billers, registry, registrations >>

\* the registry under construction
registryVars == << registry, registrations >>

\* what the steps of chat leave alone: the session table and the connection
tableVars == << menu, origin, connected, biller_id, self, agent_sessions, parked,
                connections, created, opsLeft, lastOp, deleted, billers,
                registryVars >>

loopVars == << iteration, max_iterations, consecutive_no_progress, any_success,
               response, outs, idx >>

Text(t) == Content(t, << >>, FALSE, 0, "")

Message(role, content, calls, id, name) ==
    [role |-> role, content |-> content, tool_calls |-> calls,
     tool_call_id |-> id, name |-> name]

UserMessage == Message("user", Text("text"), << >>, 0, "")
SystemMessage == Message("system", Text("text"), << >>, 0, "")
AssistantMessage == Message("assistant", Text("text"), << >>, 0, "")
\* response_message of a response that carries tool calls
ToolCallMessage(calls) ==
    Message("assistant", Text("none"), [i \in 1..Len(calls) |-> calls[i].id], 0, "")
ToolMessage(call, content) == Message("tool", content, << >>, call.id, call.name)

Unbound == [bound |-> FALSE, calls |-> << >>]
NoInv == [dispatched |-> FALSE, name |-> "", decoded |-> FALSE,
          mapping |-> FALSE, out |-> NoRows, keys |-> {}, list |-> TRUE,
          data |-> << >>, before |-> << >>, raised |-> FALSE, error |-> "",
          arg |-> "", execs |-> << >>, id |-> 0, content |-> Text("none"),
          shard |-> 0]

\* the entries of script: a user message, and what the model did when it was
\* queried
UserSays == [kind |-> "user", reqs |-> << >>]
ModelSays(kind, reqs) == [kind |-> kind, reqs |-> reqs]

\* no reset of the agent yet
NoOrigin == [set |-> FALSE, roles |-> << >>, script |-> << >>]

\* the session id of an agent that no session holds
NoKey == "-"

\* no request yet
NoOp ==
    [op |-> "none", key |-> NoKey, known |-> FALSE, returned |-> NoKey,
     status |-> "", biller |-> 0, tools |-> << >>]

\* AIAgent.__init__ and add_system_message, as get_agent calls them
InitAgent ==
    /\ history = << SystemMessage >>
    /\ cache = << >>
    /\ pc = "idle"
    /\ iteration = 0
    /\ max_iterations = 0
    /\ consecutive_no_progress = 0
    /\ any_success = FALSE
    /\ response = Unbound
    /\ outs = << >>
    /\ idx = 0
    /\ result = "none"
    /\ nextId = 1
    /\ queries = 0
    /\ failed = FALSE
    /\ streak = 0
    /\ inv = NoInv
    /\ lastRows = << >>
    /\ script = << >>
    /\ origin = NoOrigin
    /\ connected = TRUE
    /\ biller_id = 1

\* the agent is not used through the API: no session table
NoTable ==
    /\ self = NoKey
    /\ agent_sessions = {}
    /\ parked = << >>
    /\ connections = 1
    /\ created = 1
    /\ opsLeft = 0
    /\ lastOp = NoOp
    /\ deleted = {}
    /\ billers = {1}
    /\ registry = << >>
    /\ registrations = << >>

\* a session of get_agent, with the registry of setup_tools: the model draws
\* from Requests, from OddRequests, DataRequests or BareRequests, or from
\* PlainRequests in one long chat call
Init ==
    /\ registered = Len(RegistrationOrder)
    /\ extra = 0
    /\ menu \in {PlainRequests, Requests, OddRequests, DataRequests,
                BareRequests}
    /\ plain = (menu = PlainRequests)
    /\ allowance = IF plain THEN MaxPlain ELSE MaxInv
    /\ chatsLeft = IF plain THEN 1 ELSE MaxChats
    /\ InitAgent
    /\ NoTable

\* sessions of every registry size, which make one chat call of plain requests
InitLoop ==
    /\ \E n \in 0..MaxTools :
        /\ registered = Min(n, Len(RegistrationOrder))
        /\ extra = Max(n - Len(RegistrationOrder), 0)
    /\ plain = TRUE
    /\ allowance = MaxPlain
    /\ chatsLeft = 1
    /\ menu = PlainRequests
    /\ InitAgent
    /\ NoTable

(***************************************************************************)
(* AIAgent.chat, src/agent.py lines 49-200.                                *)
(***************************************************************************)
\* lines 59-74: the user message, the budget, the counters
ChatStart ==
    /\ pc = "idle"
    /\ chatsLeft > 0
    /\ chatsLeft' = chatsLeft - 1
    /\ history' = Append(history, UserMessage)
    /\ max_iterations' = MaxIterations(FunctionCount(Registry, extra))
    /\ iteration' = 0
    /\ consecutive_no_progress' = 0
    /\ response' = Unbound
    /\ outs' = << >>
    /\ any_success' = FALSE
    /\ idx' = 0
    /\ pc' = "loop"
    /\ result' = "none"
    /\ queries' = 0
    /\ failed' = FALSE
    /\ streak' = 0
    /\ script' = Append(script, UserSays)
    /\ UNCHANGED << registered, extra, plain, cache, allowance, nextId, inv, lastRows >>
    /\ UNCHANGED tableVars

\* the loop test with <= for <
LoopTestInclusive(i, m) == i <= m

\* the test of the while loop, line 76
LoopTest(i, m) == i < m

\* lines 92-109, were line 106 to put the assistant message in the place
\* of the last message of the history
EnterRoundReplaces(calls) ==
    /\ consecutive_no_progress' = 0
    /\ history' = [history EXCEPT ![Len(history)] = ToolCallMessage(calls)]
    /\ any_success' = FALSE
    /\ idx' = 1
    /\ pc' = "tools"

\* lines 92-109 without line 103: the counter is kept from round to round
EnterRoundKeepsCount(calls) ==
    /\ UNCHANGED consecutive_no_progress
    /\ history' = Append(history, ToolCallMessage(calls))
    /\ any_success' = FALSE
    /\ idx' = 1
    /\ pc' = "tools"

\* lines 92-109, for a response that carries tool calls
EnterRound(calls) ==
    /\ consecutive_no_progress' = 0
    /\ history' = Append(history, ToolCallMessage(calls))
    /\ any_success' = FALSE
    /\ idx' = 1
    /\ pc' = "tools"

\* lines 76-100, were the answer appended and the loop not left
ModelAnswerGoesOn ==
    /\ pc = "loop"
    /\ LoopTest(iteration, max_iterations)
    /\ iteration' = iteration + 1
    /\ queries' = queries + 1
    /\ response' = [bound |-> TRUE, calls |-> << >>]
    /\ outs' = << >>
    /\ history' = Append(history, AssistantMessage)
    /\ UNCHANGED << registered, extra, plain, cache, max_iterations,
                    consecutive_no_progress, any_success, idx, allowance,
                    chatsLeft, nextId, failed, streak, inv, lastRows, pc,
                    result >>
    /\ script' = Append(script, ModelSays("answer", << >>))
    /\ UNCHANGED tableVars

\* lines 76-100, were the answer returned without being appended
ModelAnswerUnrecorded ==
    /\ pc = "loop"
    /\ LoopTest(iteration, max_iterations)
    /\ iteration' = iteration + 1
    /\ queries' = queries + 1
    /\ response' = [bound |-> TRUE, calls |-> << >>]
    /\ outs' = << >>
    /\ result' = "answer"
    /\ pc' = "idle"
    /\ UNCHANGED << registered, extra, plain, history, cache, max_iterations,
                    consecutive_no_progress, any_success, idx, allowance,
                    chatsLeft, nextId, failed, streak, inv, lastRows >>
    /\ script' = Append(script, ModelSays("answer", << >>))
    /\ UNCHANGED tableVars

\* lines 76-100: the model answers with text and no tool call
ModelAnswer ==
    /\ pc = "loop"
    /\ LoopTest(iteration, max_iterations)
    /\ iteration' = iteration + 1
    /\ queries' = queries + 1
    /\ response' = [bound |-> TRUE, calls |-> << >>]
    /\ outs' = << >>
    /\ history' = Append(history, AssistantMessage)
    /\ result' = "answer"
    /\ pc' = "idle"
    /\ UNCHANGED << registered, extra, plain, cache, max_iterations, consecutive_no_progress,
                    any_success, idx, allowance, chatsLeft, nextId, failed,
                    streak, inv, lastRows >>
    /\ script' = Append(script, ModelSays("answer", << >>))
    /\ UNCHANGED tableVars

\* lines 76-109: the model answers with tool calls
ModelToolCalls ==
    /\ pc = "loop"
    /\ LoopTest(iteration, max_iterations)
    /\ \E reqs \in Responses(menu, allowance) :
        LET calls == [i \in 1..Len(reqs) |->
                        [id |-> nextId + i - 1, name |-> reqs[i].name,
                         arguments |-> reqs[i].arguments]]
        IN  /\ response' = [bound |-> TRUE, calls |-> calls]
            /\ outs' = [i \in 1..Len(reqs) |-> reqs[i].out]
            /\ EnterRound(calls)
            /\ allowance' = allowance - Len(reqs)
            /\ nextId' = nextId + Len(reqs)
            /\ script' = Append(script, ModelSays("tools", reqs))
    /\ iteration' = iteration + 1
    /\ queries' = queries + 1
    /\ UNCHANGED << registered, extra, plain, cache, max_iterations, result, chatsLeft,
                    failed, streak, inv, lastRows >>
    /\ UNCHANGED tableVars

\* lines 76-109: the model call raises.  The handler of line 87 prints and
\* goes on: line 89 reads response, which is unbound in the first round
\* (UnboundLocalError, which leaves chat) and is the response of the round
\* before in a later one, whose tool calls are then dispatched again (they
\* count against the invocations the session has left); their executors
\* ask the database again, which may answer otherwise.
ModelFails ==
    /\ pc = "loop"
    /\ LoopTest(iteration, max_iterations)
    /\ iteration' = iteration + 1
    /\ queries' = queries + 1
    /\ failed' = TRUE
    /\ IF ~response.bound
       THEN /\ pc' = "idle"
            /\ result' = "raise"
            /\ UNCHANGED << history, consecutive_no_progress, any_success, idx,
                            allowance, outs >>
       ELSE /\ Len(response.calls) <= allowance
            /\ allowance' = allowance - Len(response.calls)
            /\ EnterRound(response.calls)
            /\ outs' \in Again(menu, response.calls)
            /\ UNCHANGED result
    /\ UNCHANGED << registered, extra, plain, cache, max_iterations, response, chatsLeft,
                    nextId, streak, inv, lastRows >>
    /\ script' = Append(script, ModelSays("fail", << >>))
    /\ UNCHANGED tableVars

\* lines 198-200, were the end of the budget an exception
IterationLimitRaises ==
    /\ pc = "loop"
    /\ ~LoopTest(iteration, max_iterations)
    /\ result' = "raise"
    /\ pc' = "idle"
    /\ UNCHANGED << registered, extra, plain, history, cache, loopVars, allowance,
                    chatsLeft, nextId, queries, failed, streak, inv, lastRows,
                    script >>
    /\ UNCHANGED tableVars

\* lines 198-200: the loop ends because the budget is used up
IterationLimit ==
    /\ pc = "loop"
    /\ ~LoopTest(iteration, max_iterations)
    /\ result' = "limit"
    /\ pc' = "idle"
    /\ UNCHANGED << registered, extra, plain, history, cache, loopVars, allowance,
                    chatsLeft, nextId, queries, failed, streak, inv, lastRows,
                    script >>
    /\ UNCHANGED tableVars

\* what a dispatch leaves in inv
InvRecord(call, d, before, r, out) ==
    [dispatched |-> EntersTry(call), name |-> call.name, decoded |-> d.ok,
     mapping |-> d.mapping, out |-> out,
     keys |-> d.kwargs.keys, data |-> GetData(d.kwargs),
     list |-> d.kwargs.list, before |-> before,
     raised |-> IF EntersTry(call) THEN ~r.success ELSE TRUE,
     error |-> IF EntersTry(call) /\ ~r.success THEN r.content.tag ELSE "",
     arg |-> IF EntersTry(call) /\ ~r.success THEN r.content.arg ELSE "",
     execs |-> IF EntersTry(call) THEN r.execs ELSE << >>, id |-> call.id,
     content |-> IF EntersTry(call) THEN r.content ELSE Text("none"),
     shard |-> biller_id]

\* lines 110-187, were the for loop to take the calls last to first
DispatchReversed ==
    /\ pc = "tools"
    /\ idx <= Len(response.calls)
    /\ LET call == response.calls[Len(response.calls) - idx + 1]
           out == outs[Len(response.calls) - idx + 1]
           d == Decode(call.arguments)
           r == Try(Registry, cache, call.name, d, out)
       IN  /\ inv' = InvRecord(call, d, cache, r, out)
           /\ IF ~EntersTry(call)
              THEN \* line 112 or line 115 raises outside the try block: chat
                   \* raises
                   /\ pc' = "idle"
                   /\ result' = "raise"
                   /\ UNCHANGED << history, cache, any_success, idx, lastRows >>
              ELSE /\ cache' = r.cache
                   /\ history' = Append(history, ToolMessage(call, r.content))
                   /\ any_success' = (any_success \/ r.success)
                   /\ idx' = idx + 1
                   /\ lastRows' =
                        IF /\ call.name # "ExportToExcel"
                           /\ ~r.first.raised
                           /\ r.first.value.type = "list"
                           /\ r.first.value.rows # << >>
                        THEN r.first.value.rows
                        ELSE lastRows
                   /\ UNCHANGED << pc, result >>
    /\ UNCHANGED << registered, extra, plain, iteration, max_iterations,
                    consecutive_no_progress, response, outs, allowance, chatsLeft,
                    nextId, queries, failed, streak, script >>
    /\ UNCHANGED tableVars

\* lines 110-187: one pass of the for loop
Dispatch ==
    /\ pc = "tools"
    /\ idx <= Len(response.calls)
    /\ LET call == response.calls[idx]
           out == outs[idx]
           d == Decode(call.arguments)
           r == Try(Registry, cache, call.name, d, out)
       IN  /\ inv' = InvRecord(call, d, cache, r, out)
           /\ IF ~EntersTry(call)
              THEN \* line 112 or line 115 raises outside the try block: chat
                   \* raises
                   /\ pc' = "idle"
                   /\ result' = "raise"
                   /\ UNCHANGED << history, cache, any_success, idx, lastRows >>
              ELSE /\ cache' = r.cache
                   /\ history' = Append(history, ToolMessage(call, r.content))
                   /\ any_success' = (any_success \/ r.success)
                   /\ idx' = idx + 1
                   /\ lastRows' =
                        IF /\ call.name # "ExportToExcel"
                           /\ ~r.first.raised
                           /\ r.first.value.type = "list"
                           /\ r.first.value.rows # << >>
                        THEN r.first.value.rows
                        ELSE lastRows
                   /\ UNCHANGED << pc, result >>
    /\ UNCHANGED << registered, extra, plain, iteration, max_iterations,
                    consecutive_no_progress, response, outs, allowance, chatsLeft,
                    nextId, queries, failed, streak, script >>
    /\ UNCHANGED tableVars

\* the threshold of line 192
NoProgressLimit == 3

\* lines 189-196: the end of a round
EndRound ==
    /\ pc = "tools"
    /\ idx > Len(response.calls)
    /\ consecutive_no_progress' =
         IF any_success THEN consecutive_no_progress
         ELSE consecutive_no_progress + 1
    /\ streak' = IF any_success THEN 0 ELSE streak + 1
    /\ IF ~any_success /\ consecutive_no_progress + 1 >= NoProgressLimit
       THEN pc' = "idle" /\ result' = "no_progress"
       ELSE pc' = "loop" /\ UNCHANGED result
    /\ UNCHANGED << registered, extra, plain, history, cache, iteration, max_iterations,
                    any_success, response, outs, idx, allowance, chatsLeft, nextId,
                    queries, failed, inv, lastRows, script >>
    /\ UNCHANGED tableVars

\* the text chat returned: response_message.content of line 100, or the
\* message of line 194 or of line 200
ReturnedText ==
    CASE result = "answer" -> Text("text")
      [] result = "no_progress" -> Text("no_progress")
      [] result = "limit" -> Text("limit")
      [] OTHER -> Text("none")

Next ==
    \/ ChatStart
    \/ ModelAnswer
    \/ ModelToolCalls
    \/ ModelFails
    \/ IterationLimit
    \/ Dispatch
    \/ EndRound

Spec == Init /\ [][Next]_vars

SpecLoop == InitLoop /\ [][Next]_vars

(***************************************************************************)
(* src/api.py: the session table and its handlers.  The handlers are       *)
(* coroutines that never await, and agent.chat is an ordinary call: the    *)
(* event loop runs each handler to its end before it starts another.       *)
(***************************************************************************)
\* the agent that self names
Self ==
    [history |-> history, cache |-> cache, connected |-> connected,
     registered |-> registered, lastRows |-> lastRows, script |-> script,
     origin |-> origin, biller_id |-> biller_id]

\* agent_sessions[k]
AgentOf(k) == IF k = self THEN Self ELSE parked[k]

\* list_sessions
ListSessions == agent_sessions

\* add_system_message, were it to insert nothing
AddSystemMessageNone(h) == h

\* AIAgent.add_system_message
AddSystemMessage(h) == << SystemMessage >> \o h

\* AIAgent(biller_id) and add_system_message, lines 66-70 of get_agent
NewAgent(b) ==
    [history |-> AddSystemMessage(<< >>), cache |-> << >>, connected |-> TRUE,
     registered |-> Len(RegistrationOrder), lastRows |-> << >>,
     script |-> << >>, origin |-> NoOrigin, biller_id |-> b]

\* the variables of an agent when self names none
NoAgent ==
    [history |-> << >>, cache |-> << >>, connected |-> FALSE, registered |-> 0,
     lastRows |-> << >>, script |-> << >>, origin |-> NoOrigin,
     biller_id |-> 0]

\* reset_conversation, were it to clear the cache as well
ResetConversationAndCache(a) ==
    [a EXCEPT !.history = << >>, !.cache = << >>, !.lastRows = << >>]

\* reset_conversation, were it to keep the system message
ResetConversationKeepsSystem(a) == [a EXCEPT !.history = << SystemMessage >>]

\* AIAgent.reset_conversation
ResetConversation(a) == [a EXCEPT !.history = << >>]

\* the roles of the messages of h
Roles(h) == [i \in 1..Len(h) |-> h[i].role]

\* what the first reset of an agent records of the run it ends, and the start
\* of the record of the run that follows
Rerun(a, b) ==
    [b EXCEPT !.script = << >>,
              !.origin = IF a.origin.set THEN a.origin
                         ELSE [set |-> TRUE, roles |-> Roles(a.history),
                               script |-> a.script]]

\* disconnect, were it to leave the connection open
DisconnectNothing(a, n) == n

\* DatabaseConnection.disconnect: the connections open afterwards
Disconnect(a, n) == IF a.connected THEN n - 1 ELSE n

\* the agents as the variables hold them, were last_query_results an
\* attribute of the class: the cache is the one of the agent served before
ServeSharedCache(k, a, ks) ==
    /\ self' = k
    /\ history' = a.history
    /\ cache' = cache
    /\ connected' = a.connected
    /\ biller_id' = a.biller_id
    /\ registered' = a.registered
    /\ lastRows' = a.lastRows
    /\ script' = a.script
    /\ origin' = a.origin
    /\ agent_sessions' = ks
    /\ parked' = [j \in ks \ {k} |-> AgentOf(j)]

\* the agents as the variables hold them after a request: the request is
\* served by agent a under session id k, and agent_sessions holds ks
Serve(k, a, ks) ==
    /\ self' = k
    /\ history' = a.history
    /\ cache' = a.cache
    /\ connected' = a.connected
    /\ biller_id' = a.biller_id
    /\ registered' = a.registered
    /\ lastRows' = a.lastRows
    /\ script' = a.script
    /\ origin' = a.origin
    /\ agent_sessions' = ks
    /\ parked' = [j \in ks \ {k} |-> AgentOf(j)]

\* sessionId: null of a request without one
Null == "null"

\* the session ids a client sends
ClientKeys == {"s1"}

\* f"{biller_id}_{datetime.now()...}": the id minted for a biller at a
\* reading of the clock.  The clock is that of the wall: a reading can be
\* the one of an earlier call
MintedKeys == << << "1_t1", "1_t2" >>, << "2_t1", "2_t2" >> >>

\* the readings of the clock
Instants == {1, 2}

\* sessionId: "" of a chat request
Empty == ""

\* the biller ids of the requests, when they carry more than one
Billers == {1, 2}

\* the session ids of the requests: none, the ids of clients, and the
\* strings the API mints, which a client may send before or after the API
\* has minted them
SessionIds ==
    {Null} \cup ClientKeys \cup {MintedKeys[b][t] : b \in billers, t \in Instants}

\* the test of line 62 of get_agent, were it to find no session
KnownNever(sid, ks) == FALSE

\* the test of line 62 of get_agent
Known(sid, ks) == sid # Null /\ sid # "" /\ sid \in ks

\* get_agent, were it to mint an id for every agent it creates
GetAgentAlwaysMints(b, sid, t) ==
    IF Known(sid, agent_sessions)
    THEN [agent |-> AgentOf(sid), key |-> sid, new |-> FALSE]
    ELSE [agent |-> NewAgent(b), key |-> MintedKeys[b][t], new |-> TRUE]

\* get_agent, were it to return the stored agent only to a request of the
\* biller the agent was created for
GetAgentOfBiller(b, sid, t) ==
    IF Known(sid, agent_sessions) /\ AgentOf(sid).biller_id = b
    THEN [agent |-> AgentOf(sid), key |-> sid, new |-> FALSE]
    ELSE [agent |-> NewAgent(b),
          key |-> IF sid # Null /\ sid # "" THEN sid ELSE MintedKeys[b][t],
          new |-> TRUE]

\* get_agent at the clock reading t: the agent and the session id it
\* returns, and whether it created the agent
GetAgent(b, sid, t) ==
    IF Known(sid, agent_sessions)
    THEN [agent |-> AgentOf(sid), key |-> sid, new |-> FALSE]
    ELSE [agent |-> NewAgent(b),
          key |-> IF sid # Null /\ sid # "" THEN sid ELSE MintedKeys[b][t],
          new |-> TRUE]

\* no handler is running, were the handlers to run at any time
IdleAlways == TRUE

\* no handler is running: the event loop is free to start one
Idle == pc = "idle" /\ chatsLeft = 0

\* what the handlers other than chat leave alone
chatVars == << extra, pc, loopVars, result, plain, allowance, nextId,
               queries, failed, streak, inv, menu, billers, registryVars >>

\* the reply of reset_conversation and delete_session, were a session id
\* that is not in the table no error
ReplyAlwaysSuccess(found) == "success"

\* the reply of reset_conversation and delete_session: the status of the body
\* they return, or the detail of the HTTPException with status code 404
Reply(found) == IF found THEN "success" ELSE "Session not found"

\* agent_sessions[session_id] = agent, line 76 of get_agent: the agent that
\* was stored under the id, if any, is unreferenced, and its __del__ closes
\* its connection.  The connections open afterwards, of n
Evict(key, n) ==
    IF key \in agent_sessions THEN Disconnect(AgentOf(key), n) ELSE n

\* lines 108-112 of the handler chat: get_agent, and agent.chat is called
ApiChat(b, sid, t) ==
    /\ Idle
    /\ opsLeft > 0
    /\ LET g == GetAgent(b, sid, t)
       IN  /\ Serve(g.key, g.agent, agent_sessions \cup {g.key})
           /\ created' = IF g.new THEN created + 1 ELSE created
           /\ connections' = IF g.new THEN Evict(g.key, connections) + 1
                              ELSE connections
           /\ lastOp' = [op |-> "chat", key |-> sid, known |-> ~g.new,
                         returned |-> g.key, status |-> "", biller |-> b,
                         tools |-> << >>]
    /\ opsLeft' = opsLeft - 1
    /\ chatsLeft' = 1
    /\ UNCHANGED << chatVars, deleted >>

\* the handler reset_conversation, lines 123-134
ApiReset(sid) ==
    /\ Idle
    /\ opsLeft > 0
    /\ opsLeft' = opsLeft - 1
    /\ lastOp' = [op |-> "reset", key |-> sid, known |-> sid \in agent_sessions,
                  returned |-> NoKey, status |-> Reply(sid \in agent_sessions),
                  biller |-> 0, tools |-> << >>]
    /\ IF sid \in agent_sessions
       THEN Serve(sid, Rerun(AgentOf(sid), ResetConversation(AgentOf(sid))),
                  agent_sessions)
       ELSE UNCHANGED << self, history, cache, connected, biller_id, registered, lastRows,
                         script, origin, agent_sessions, parked >>
    /\ UNCHANGED << chatVars, chatsLeft, connections, created, deleted >>

\* the handler delete_session, lines 137-153
ApiDelete(sid) ==
    /\ Idle
    /\ opsLeft > 0
    /\ opsLeft' = opsLeft - 1
    /\ lastOp' = [op |-> "delete", key |-> sid, known |-> sid \in agent_sessions,
                  returned |-> NoKey, status |-> Reply(sid \in agent_sessions),
                  biller |-> 0, tools |-> << >>]
    /\ IF sid \in agent_sessions
       THEN /\ connections' = Disconnect(AgentOf(sid), connections)
            /\ IF sid = self
               THEN Serve(NoKey, NoAgent, agent_sessions \ {sid})
               ELSE Serve(self, Self, agent_sessions \ {sid})
       ELSE UNCHANGED << self, history, cache, connected, biller_id, registered, lastRows,
                         script, origin, agent_sessions, parked, connections >>
    /\ deleted' = IF sid \in agent_sessions THEN deleted \cup {sid} ELSE deleted
    /\ UNCHANGED << chatVars, chatsLeft, created >>

\* the handler get_available_tools, lines 156-176: get_agent creates an
\* agent under an id it mints, in the place of the agent the table held
\* under that id, if any; the handler reads the names of its tools and
\* deletes the id from the table.  The agent is then unreferenced, and its
\* __del__ closes its connection.
ApiListTools(b, t) ==
    /\ Idle
    /\ opsLeft > 0
    /\ opsLeft' = opsLeft - 1
    /\ LET g == GetAgent(b, Null, t)
           ks == (agent_sessions \cup {g.key}) \ {g.key}
       IN  /\ lastOp' = [op |-> "tools", key |-> Null, known |-> ~g.new,
                         returned |-> g.key, status |-> "", biller |-> b,
                         tools |-> [i \in 1..g.agent.registered |->
                                        RegistrationOrder[i]]]
           /\ IF g.key = self
              THEN Serve(NoKey, NoAgent, ks)
              ELSE Serve(self, Self, ks)
    /\ created' = created + 1
    /\ connections' = Evict(GetAgent(b, Null, t).key, connections) + 1 - 1
    /\ UNCHANGED << chatVars, chatsLeft, deleted >>

\* the API process at its start: no session; it receives MaxOps requests, or
\* one chat request of a model that draws from PlainRequests
InitApi ==
    /\ plain \in BOOLEAN
    /\ menu = IF plain THEN PlainRequests ELSE ApiRequests
    /\ allowance = IF plain THEN MaxPlain ELSE MaxInv
    /\ opsLeft = IF plain THEN 1 ELSE MaxOps
    /\ chatsLeft = 0
    /\ extra = 0
    /\ self = NoKey
    /\ history = NoAgent.history
    /\ cache = NoAgent.cache
    /\ connected = NoAgent.connected
    /\ biller_id = NoAgent.biller_id
    /\ registered = NoAgent.registered
    /\ lastRows = NoAgent.lastRows
    /\ script = NoAgent.script
    /\ origin = NoAgent.origin
    /\ agent_sessions = {}
    /\ parked = << >>
    /\ connections = 0
    /\ created = 0
    /\ lastOp = NoOp
    /\ pc = "idle"
    /\ iteration = 0
    /\ max_iterations = 0
    /\ consecutive_no_progress = 0
    /\ any_success = FALSE
    /\ response = Unbound
    /\ outs = << >>
    /\ idx = 0
    /\ result = "none"
    /\ nextId = 1
    /\ queries = 0
    /\ failed = FALSE
    /\ streak = 0
    /\ inv = NoInv
    /\ deleted = {}
    /\ billers = {1}
    /\ registry = << >>
    /\ registrations = << >>

NextApi ==
    \/ \E b \in billers, sid \in SessionIds, t \in Instants : ApiChat(b, sid, t)
    \/ \E sid \in SessionIds \ {Null} : ApiReset(sid)
    \/ \E sid \in SessionIds \ {Null} : ApiDelete(sid)
    \/ ChatStart
    \/ ModelAnswer
    \/ ModelToolCalls
    \/ ModelFails
    \/ IterationLimit
    \/ Dispatch
    \/ EndRound

SpecApi == InitApi /\ [][NextApi]_vars

\* the API process at its start, when requests carry the ids of two
\* billers, may carry an empty session id and ask for the names of the
\* tools as well: the model draws from
\* RouteRequests and one tool call is dispatched, or it draws from
\* PlainRequests in one chat request
InitRoute ==
    /\ plain \in BOOLEAN
    /\ menu = IF plain THEN PlainRequests ELSE RouteRequests
    /\ allowance = IF plain THEN MaxPlain ELSE 1
    /\ opsLeft = IF plain THEN 1 ELSE MaxOps
    /\ chatsLeft = 0
    /\ extra = 0
    /\ self = NoKey
    /\ history = NoAgent.history
    /\ cache = NoAgent.cache
    /\ connected = NoAgent.connected
    /\ biller_id = NoAgent.biller_id
    /\ registered = NoAgent.registered
    /\ lastRows = NoAgent.lastRows
    /\ script = NoAgent.script
    /\ origin = NoAgent.origin
    /\ agent_sessions = {}
    /\ parked = << >>
    /\ connections = 0
    /\ created = 0
    /\ lastOp = NoOp
    /\ pc = "idle"
    /\ iteration = 0
    /\ max_iterations = 0
    /\ consecutive_no_progress = 0
    /\ any_success = FALSE
    /\ response = Unbound
    /\ outs = << >>
    /\ idx = 0
    /\ result = "none"
    /\ nextId = 1
    /\ queries = 0
    /\ failed = FALSE
    /\ streak = 0
    /\ inv = NoInv
    /\ deleted = {}
    /\ billers = Billers
    /\ registry = << >>
    /\ registrations = << >>

NextRoute ==
    \/ \E b \in billers, t \in Instants : ApiListTools(b, t)
    \/ \E b \in billers, t \in Instants : ApiChat(b, Empty, t)
    \/ NextApi

SpecRoute == InitRoute /\ [][NextRoute]_vars

(***************************************************************************)
(* src/base_tool.py: a process that builds a registry, one register call   *)
(* at a time.  No agent is constructed from it.                            *)
(***************************************************************************)
\* ToolRegistry.__init__
InitRegistry ==
    /\ registry = << >>
    /\ deleted = {}
    /\ billers = {}
    /\ registrations = << >>
    /\ plain = FALSE
    /\ menu = {}
    /\ allowance = 0
    /\ opsLeft = 0
    /\ chatsLeft = 0
    /\ extra = 0
    /\ self = NoKey
    /\ history = NoAgent.history
    /\ cache = NoAgent.cache
    /\ connected = NoAgent.connected
    /\ biller_id = NoAgent.biller_id
    /\ registered = NoAgent.registered
    /\ lastRows = NoAgent.lastRows
    /\ script = NoAgent.script
    /\ origin = NoAgent.origin
    /\ agent_sessions = {}
    /\ parked = << >>
    /\ connections = 0
    /\ created = 0
    /\ lastOp = NoOp
    /\ pc = "idle"
    /\ iteration = 0
    /\ max_iterations = 0
    /\ consecutive_no_progress = 0
    /\ any_success = FALSE
    /\ response = Unbound
    /\ outs = << >>
    /\ idx = 0
    /\ result = "none"
    /\ nextId = 1
    /\ queries = 0
    /\ failed = FALSE
    /\ streak = 0
    /\ inv = NoInv

\* ToolRegistry.register
Register(name, tool) ==
    /\ Len(registrations) < MaxRegs
    /\ registry' = DictSet(registry, name, tool)
    /\ registrations' = Append(registrations, Item(name, tool))
    /\ UNCHANGED << registered, extra, history, cache, pc, loopVars, result,
                    plain, allowance, chatsLeft, nextId, queries, failed,
                    streak, inv, lastRows, menu, script, origin, connected,
                    biller_id, self, agent_sessions, parked, connections, created,
                    opsLeft, lastOp, deleted, billers >>

NextRegistry == \E r \in Registrations : Register(r.name, r.tool)

SpecRegistry == InitRegistry /\ [][NextRegistry]_vars

(***************************************************************************)
(* Properties.                                                             *)
(***************************************************************************)
Last(s) == s[Len(s)]

\* a chat call has begun in this session
ChatBegun == pc # "idle" \/ result # "none"

\* chat is about to query the model
AtModelQuery == pc = "loop" /\ LoopTest(iteration, max_iterations)

\* the last chat call returned a value to its caller
ChatReturned == pc = "idle" /\ result \in {"answer", "no_progress", "limit"}

\* C1: in every chat call the number of model queries never exceeds the
\* iteration budget computed at its start, and that budget is between 5 and
\* 10 inclusive, whatever the number of registered tools.
C1_QueriesWithinBudget ==
    ChatBegun => /\ queries <= max_iterations
                 /\ max_iterations >= 5
                 /\ max_iterations <= 10

\* C1: a call of a session with 44 tools used its whole budget of 10 queries
C1_Witness ==
    /\ FunctionCount(Registry, extra) = 44
    /\ max_iterations = 10
    /\ queries = 10
    /\ result = "limit"

\* C2: once three consecutive rounds of a chat call had no successful tool
\* invocation, the call has stopped with the no-progress message (so it makes
\* no further model query).
C2_NoProgressStops ==
    streak >= 3 => (pc = "idle" /\ result = "no_progress")

\* C3: once a model call of a chat call has raised, the call has ended with
\* an error for the caller: it is not dispatching tools and makes no query.
C3_ModelFailureEndsCall ==
    failed => (pc = "idle" /\ result = "raise")

\* the tool messages that follow message i of h without a gap
ResultsAfter(h, i) ==
    {j \in (i + 1)..Len(h) : \A m \in (i + 1)..j : h[m].role = "tool"}

\* message i of h asks for tool calls
AsksForTools(h, i) == h[i].role = "assistant" /\ h[i].tool_calls # << >>

\* every assistant message with k tool calls is followed by exactly k tool
\* messages, which answer its k invocation ids, one each
Paired(h) ==
    \A i \in 1..Len(h) :
        AsksForTools(h, i) =>
            LET k == Len(h[i].tool_calls)
            IN  /\ Cardinality(ResultsAfter(h, i)) = k
                /\ \A n \in 1..k :
                     Cardinality({j \in ResultsAfter(h, i) :
                        h[j].tool_call_id = h[i].tool_calls[n]}) = 1

\* C4: at every model query and at the return of every chat call, each
\* assistant message with k tool-call requests is immediately followed by
\* exactly k tool-result messages that answer its k invocation ids.
C4_ResultsPaired ==
    (AtModelQuery \/ ChatReturned) => Paired(history)

\* the last dispatch was an ExportToExcel call whose arguments were decoded
ExportDispatched == inv.dispatched /\ inv.name = "ExportToExcel"

\* C5: with N >= 1 cached records, an ExportToExcel call whose data argument
\* is a list of fewer than N records ends with the executor invoked with the
\* N cached records, and the tool message carries the result of that
\* invocation: N rows exported, or a failure to write the workbook.
C5_ShortDataUsesCache ==
    ( /\ ExportDispatched
      /\ "data" \in inv.keys
      /\ inv.list
      /\ Len(inv.before) >= 1
      /\ Len(inv.data) < Len(inv.before) )
    => /\ inv.execs # << >>
       /\ Last(inv.execs).data = inv.before
       /\ inv.content = FormatResults(ExcelExecute(Last(inv.execs), inv.out))
       /\ inv.out.write =>
            inv.content = Content("dict", << >>, TRUE, Len(inv.before), "")
       /\ Last(history).role = "tool" => Last(history).content = inv.content

\* C6: with N >= 1 cached records, an ExportToExcel call with no data key in
\* its arguments gets the cached records as its data and the executor is
\* invoked with them.
C6_MissingDataUsesCache ==
    ( /\ ExportDispatched
      /\ "data" \notin inv.keys
      /\ Len(inv.before) >= 1 )
    => /\ inv.execs # << >>
       /\ Last(inv.execs).data = inv.before

\* C7: an ExportToExcel call whose data argument has at least as many
\* records as the cache invokes the executor exactly once, with the data
\* supplied.
C7_FullDataPassedThrough ==
    ( /\ ExportDispatched
      /\ "data" \in inv.keys
      /\ inv.list
      /\ Len(inv.data) >= Len(inv.before) )
    => /\ Len(inv.execs) = 1
       /\ inv.execs[1] = [tool |-> "ExportToExcel", keys |-> inv.keys,
                          data |-> inv.data, truthy |-> inv.data # << >>]

\* C8: the cache always holds the records of the most recent call of a tool
\* other than ExportToExcel that returned a non-empty list (none: it is
\* empty); calls that fail, that return nothing or a mapping, and
\* ExportToExcel calls leave it alone.
C8_CacheIsLastResult ==
    cache = [i \in 1..Len(lastRows) |-> DictZip(Columns, lastRows[i])]

\* the parameters of ps flagged required that keys lacks, by position
MissingAt(ps, keys) ==
    {i \in 1..Len(ps) : ps[i].required /\ ps[i].name \notin keys}

\* the last dispatch was of a registered tool and lacked a required parameter
MissingDispatched ==
    /\ inv.dispatched
    /\ inv.mapping
    /\ inv.name \in DOMAIN Registry
    /\ MissingAt(Registry[inv.name].params, inv.keys) # {}

\* C9: a dispatch that lacks a required parameter never invokes the
\* executor, and its error names the first missing required parameter in
\* descriptor order.
C9_FirstMissingNamed ==
    MissingDispatched =>
        LET ps == Registry[inv.name].params
            first == CHOOSE i \in MissingAt(ps, inv.keys) :
                        \A j \in MissingAt(ps, inv.keys) : i <= j
        IN  /\ inv.execs = << >>
            /\ inv.raised
            /\ inv.error = "missing_parameter"
            /\ inv.arg = ps[first].name
            /\ inv.content = Content("missing_parameter", << >>, FALSE, 0,
                                     ps[first].name)

\* an executor raised for one of the tool calls of message i of h
ExecutorRaisedAfter(h, i) ==
    \E j \in ResultsAfter(h, i) : h[j].content.tag = "exec"

\* C10: when an executor raises during dispatch, every invocation of that
\* round is still dispatched and answered: outside the for loop, a round in
\* which an executor raised has a tool message for each of its tool calls.
C10_RoundCompletedAfterRaise ==
    pc # "tools" =>
        \A i \in 1..Len(history) :
            (AsksForTools(history, i) /\ ExecutorRaisedAfter(history, i))
            => Cardinality(ResultsAfter(history, i)) = Len(history[i].tool_calls)

\* the for loop of chat is at a tool call, with arguments that decode, that
\* names no registered tool
AtUnknownTool ==
    /\ pc = "tools"
    /\ idx <= Len(response.calls)
    /\ EntersTry(response.calls[idx])
    /\ response.calls[idx].name \notin DOMAIN Registry

\* C11: a tool call that names an unregistered tool invokes no executor and
\* appends one tool message, keyed to the id of the call, whose content is
\* the tool-not-found error for that name; the chat call goes on with the
\* next tool call (it neither returns nor raises) and the cache is as before.
C11_UnknownToolReported ==
    [][AtUnknownTool =>
        /\ inv'.execs = << >>
        /\ inv'.id = response.calls[idx].id
        /\ history' = Append(history,
                Message("tool",
                        Content("not_found", << >>, FALSE, 0,
                                response.calls[idx].name),
                        << >>, response.calls[idx].id, response.calls[idx].name))
        /\ cache' = cache
        /\ pc' = "tools"
        /\ idx' = idx + 1
        /\ result' = "none"]_vars

\* an executor raised in this session: a tool message reports it
ExecutorRaised ==
    \E i \in 1..Len(history) :
        history[i].role = "tool" /\ history[i].content.tag = "exec"

\* C12: provided no model query of the call and no executor raised, a chat
\* call that has ended made at most max_iterations model queries and ended
\* in one of the three outcomes: the model's answer, the no-progress message
\* or the iteration-limit message.
C12_EndsInOneOfThree ==
    (ChatBegun /\ pc = "idle" /\ ~failed /\ ~ExecutorRaised) =>
        /\ result \in {"answer", "no_progress", "limit"}
        /\ queries <= max_iterations

\* C13: when a chat call has returned a text, whichever way it ended, the
\* last message of the history is an assistant message whose content is
\* that text.
C13_ReturnedTextIsLast ==
    ChatReturned =>
        Last(history) = Message("assistant", ReturnedText, << >>, 0, "")

\* C13, amended: when a chat call has returned the model's final answer, the
\* last message of the history is an assistant message whose content is
\* that text; when it has returned the no-progress or the iteration-limit
\* message, nothing was appended for it: the history ends with the last tool
\* message of the call.
C13_AnswerIsLast ==
    /\ (ChatReturned /\ result = "answer") =>
            Last(history) = Message("assistant", ReturnedText, << >>, 0, "")
    /\ (ChatReturned /\ result # "answer") => Last(history).role = "tool"

\* C13: a chat call returned the model's answer after a round of tool calls
C13_Witness ==
    /\ ChatReturned
    /\ result = "answer"
    /\ Len(history) >= 2
    /\ history[Len(history) - 1].role = "tool"

\* C14: when a session that was reset has been given again the user
\* messages of its first run, with the model and the tools doing what they
\* did then, the roles of the messages of its history are the roles the
\* history had, after that first run, when it was reset.
C14_ReplayReproducesRoles ==
    Idle =>
        \A k \in agent_sessions :
            (AgentOf(k).origin.set /\ AgentOf(k).script = AgentOf(k).origin.script)
            => Roles(AgentOf(k).history) = AgentOf(k).origin.roles

\* the step is the handling of a request op whose session id is in the table
Handles(op, k) ==
    /\ opsLeft' = opsLeft - 1
    /\ lastOp'.op = op
    /\ lastOp'.key = k
    /\ k \in agent_sessions

\* the step stores a new agent under the session id k (line 76 of
\* get_agent): the agent under k afterwards is not the one before
StoresNew(k) == created' # created /\ lastOp'.returned = k

HandlerRunning == pc # "idle" \/ chatsLeft > 0

\* C16: from the start of a chat call on a session to its return no other
\* request is handled: no chat, reset or delete starts, the agent that is
\* chatting stays the same one, and the table and the agents of the other
\* sessions are as they were (the history and the cache of the session are
\* touched by the steps of that one chat call only).
C16_OneChatAtATime ==
    [][HandlerRunning =>
        /\ opsLeft' = opsLeft
        /\ lastOp' = lastOp
        /\ self' = self
        /\ agent_sessions' = agent_sessions
        /\ parked' = parked
        /\ chatsLeft' <= chatsLeft]_vars

\* C16: a chat call is dispatching tools while the table holds another
\* session and requests are still to come
C16_Witness ==
    /\ pc = "tools"
    /\ self \in agent_sessions
    /\ Cardinality(agent_sessions) >= 2
    /\ opsLeft > 0
    /\ cache # << >>

\* the session id a step works for: the one of the request it handles, or
\* the one of the chat call that is running
Affected ==
    IF opsLeft' = opsLeft THEN self
    ELSE IF lastOp'.op = "chat" THEN lastOp'.returned
    ELSE lastOp'.key

\* the step dispatches an ExportToExcel call
DispatchesExport ==
    /\ pc = "tools"
    /\ idx <= Len(response.calls)
    /\ idx' = idx + 1
    /\ response.calls[idx].name = "ExportToExcel"

\* C17: a step that works for one session (a request for it, or a step of
\* its chat call) leaves the history and the cache of every other session
\* as they were; and a dispatch of ExportToExcel sees as cache, and exports
\* in its fallback, the records of the last results of that session's own
\* tool calls.
C17_SessionsIsolated ==
    [][/\ \A k \in (agent_sessions \cap agent_sessions') \ {Affected} :
            /\ AgentOf(k)'.history = AgentOf(k).history
            /\ AgentOf(k)'.cache = AgentOf(k).cache
       /\ DispatchesExport =>
            /\ inv'.before = CacheRecords(lastRows, inv'.out.iter)
            /\ Len(inv'.execs) = 2 =>
                    inv'.execs[2].data = CacheRecords(lastRows, inv'.out.iter)]_vars

\* C17: a session without results of its own dispatched an export with no
\* data, and exported nothing, while another session held cached records
C17_Witness ==
    /\ pc = "tools"
    /\ ExportDispatched
    /\ inv.data = << >>
    /\ inv.before = << >>
    /\ Len(inv.execs) = 1
    /\ inv.content.success = FALSE
    /\ Last(history).tool_call_id = inv.id
    /\ \E k \in agent_sessions \ {self} : AgentOf(k).cache # << >>

\* the step is get_agent, called by the handler chat with session id sid
GetsAgent(sid) ==
    /\ opsLeft' = opsLeft - 1
    /\ lastOp'.op = "chat"
    /\ lastOp'.key = sid

\* C18: get_agent with a session id that is in the table returns that id
\* and the agent stored under it, as it was, creates no agent (no new
\* connection, no id minted) and leaves the table and every agent of it
\* unchanged.
C18_KnownKeyReturnsStored ==
    [][\A sid \in agent_sessions :
        GetsAgent(sid) =>
            /\ lastOp'.returned = sid
            /\ lastOp'.known
            /\ self' = sid
            /\ Self' = AgentOf(sid)
            /\ created' = created
            /\ connections' = connections
            /\ agent_sessions' = agent_sessions
            /\ \A k \in agent_sessions : AgentOf(k)' = AgentOf(k)]_vars

\* C18: get_agent returned the agent of a known session, with its history
\* and its cache, while the request before was for another session
C18_Witness ==
    /\ lastOp.op = "chat"
    /\ lastOp.known
    /\ lastOp.returned = self
    /\ chatsLeft = 1
    /\ Len(history) >= 3
    /\ cache # << >>
    /\ Cardinality(agent_sessions) >= 2

\* C19: whenever get_agent creates an agent, that agent has a history of
\* exactly one system message and an empty cache when get_agent returns, and
\* the table holds it under the session id that get_agent returns.
C19_NewSessionPrimed ==
    [][\A sid \in SessionIds :
        (GetsAgent(sid) /\ created' # created) =>
            /\ lastOp'.returned \in agent_sessions'
            /\ self' = lastOp'.returned
            /\ Len(Self'.history) = 1
            /\ Self'.history[1].role = "system"
            /\ Self'.cache = << >>
            /\ agent_sessions' = agent_sessions \cup {lastOp'.returned}]_vars

\* C19: get_agent created an agent under an id it minted, while the table
\* held a session with a longer history and cached records
C19_Witness ==
    /\ lastOp.op = "chat"
    /\ ~lastOp.known
    /\ lastOp.key = Null
    /\ lastOp.returned = self
    /\ chatsLeft = 1
    /\ history = << SystemMessage >>
    /\ \E k \in agent_sessions \ {self} : AgentOf(k).cache # << >>

\* C20: a delete of a session in the table closes the connection of its
\* agent (one connection fewer is open) and removes its id: the id is not
\* among the live sessions afterwards, and every other entry of the table
\* is there as it was.
C20_DeleteRemovesOnlyKey ==
    [][\A k \in agent_sessions :
        Handles("delete", k) =>
            /\ AgentOf(k).connected
            /\ connections' = connections - 1
            /\ k \notin ListSessions'
            /\ ListSessions' = ListSessions \ {k}
            /\ \A j \in agent_sessions \ {k} : AgentOf(j)' = AgentOf(j)]_vars

\* C20: one of two sessions was deleted; the other is in the table with its
\* history, and its connection is the one still open
C20_Witness ==
    /\ lastOp.op = "delete"
    /\ lastOp.known
    /\ lastOp.key \notin agent_sessions
    /\ Cardinality(agent_sessions) = 1
    /\ connections = 1
    /\ created = 2
    /\ \A k \in agent_sessions : Len(AgentOf(k).history) >= 3

\* the step is the handling of a reset or delete whose session id is not in
\* the table
HandlesUnknown(sid) ==
    /\ opsLeft' = opsLeft - 1
    /\ lastOp'.op \in {"reset", "delete"}
    /\ lastOp'.key = sid
    /\ sid \notin agent_sessions

\* C21: a reset or a delete with a session id that is not in the table
\* replies with the not-found error and changes nothing: the table holds the
\* same ids and the same agents (none created, removed or cleared), and the
\* same connections are open.
C21_UnknownKeyNotFound ==
    [][\A sid \in SessionIds :
        HandlesUnknown(sid) =>
            /\ lastOp'.status = "Session not found"
            /\ agent_sessions' = agent_sessions
            /\ \A k \in agent_sessions : AgentOf(k)' = AgentOf(k)
            /\ connections' = connections
            /\ created' = created]_vars

\* C21: a delete named a session id that is not in the table, while the
\* table held a session with a history and cached records
C21_Witness ==
    /\ lastOp.op = "delete"
    /\ ~lastOp.known
    /\ lastOp.status = "Session not found"
    /\ lastOp.key \notin agent_sessions
    /\ \E k \in agent_sessions :
          Len(AgentOf(k).history) >= 3 /\ AgentOf(k).cache # << >>

\* the step is a model query whose response carries no tool call
AnswersWithoutTools ==
    /\ pc = "loop"
    /\ queries' = queries + 1
    /\ response'.bound
    /\ response'.calls = << >>

\* C22: a model response without tool calls makes chat append one assistant
\* message with the text of the response and return that text; in round 1
\* the history of the call is then the user message and that assistant
\* message, with no tool message.  After the return nothing is queried or
\* dispatched until a chat call starts.
C22_AnswerEndsCall ==
    [][/\ AnswersWithoutTools =>
            /\ history' = Append(history, Message("assistant", ReturnedText',
                                                  << >>, 0, ""))
            /\ pc' = "idle"
            /\ result' = "answer"
            /\ ReturnedText' = Text("text")
            /\ inv' = inv
            /\ iteration = 0 => Last(history) = UserMessage
       /\ (pc = "idle" /\ result = "answer") =>
            /\ inv' = inv
            /\ queries' = queries \/ (queries' = 0 /\ pc' = "loop")
            /\ history' = history \/ history' = Append(history, UserMessage)]_vars

\* C22: the model answered in round 1: the call added a user message and an
\* assistant message to the system message
C22_Witness ==
    /\ pc = "idle"
    /\ result = "answer"
    /\ queries = 1
    /\ Roles(history) = << "system", "user", "assistant" >>

\* every round of the call so far asked for tools, and the budget is used up
BudgetUsedUp == pc = "loop" /\ iteration >= max_iterations

\* C23: when every round of a chat call asked for tools and the budget is
\* used up, the call has made exactly max_iterations model queries and its
\* next step is the return of the iteration-limit message: a value, not an
\* exception, and nothing is appended or dispatched for it.
C23_LimitMessageReturned ==
    [][BudgetUsedUp =>
        /\ queries = max_iterations
        /\ iteration = max_iterations
        /\ pc' = "idle"
        /\ result' = "limit"
        /\ ReturnedText' = Text("limit")
        /\ queries' = queries
        /\ history' = history
        /\ inv' = inv]_vars

\* C23: a call of a session with a budget of 7 returned the iteration-limit
\* message after 7 model queries
C23_Witness ==
    /\ pc = "idle"
    /\ result = "limit"
    /\ max_iterations = 7
    /\ queries = 7
    /\ Last(history).role = "tool"

\* C24: the budget chat computes for a registry of n tools is
\* max(5, min(10, n div 4)), the division rounding down; 4 tools give 5.
C24_BudgetFormula ==
    ChatBegun =>
        /\ max_iterations =
              Max(5, Min(10, FunctionCount(Registry, extra) \div 4))
        /\ FunctionCount(Registry, extra) = 4 => max_iterations = 5

\* C24: a chat call of a session with 4 tools, or with 23, has a budget of 5
C24_Witness ==
    /\ ChatBegun
    /\ FunctionCount(Registry, extra) \in {4, 23}
    /\ max_iterations = 5
    /\ pc = "tools"


\* the names register was called with
RegisteredNames == {registrations[i].name : i \in 1..Len(registrations)}

\* the tool of the last register call made under name
LastRegistered(name) ==
    registrations[CHOOSE i \in 1..Len(registrations) :
        /\ registrations[i].name = name
        /\ \A j \in (i + 1)..Len(registrations) : registrations[j].name # name].tool

\* the arguments a caller passes to a tool: none, all of its parameters,
\* or all but the first
KwargsOf(tool) ==
    {Object(ks, IF "data" \in ks THEN << ModelRecord >> ELSE << >>) :
        ks \in {{}, {tool.params[i].name : i \in 1..Len(tool.params)},
                {tool.params[i].name : i \in 2..Len(tool.params)}}}

\* C25: after any sequence of register calls the registry holds each
\* registered name once and no other name, and the lookup of execute, the
\* names of list_tools and the definitions of get_all_function_definitions
\* are, for each name, those of the tool last registered under it.
C25_LastWriteWins ==
    /\ {Keys(registry)[i] : i \in 1..Len(registry)} = RegisteredNames
    /\ ListTools(ToolsOf(registry)) = RegisteredNames
    /\ \A name \in RegisteredNames :
        /\ Cardinality({i \in 1..Len(registry) : Keys(registry)[i] = name}) = 1
        /\ ToolsOf(registry)[name] = LastRegistered(name)
        /\ \A kwargs \in KwargsOf(LastRegistered(name)) :
             \A out \in {Fails, Answers(QueryRows(1))} :
                RegistryExecute(ToolsOf(registry), name, kwargs, out)
                    = IF ValidateParameters(LastRegistered(name).params,
                                            kwargs.keys) # ""
                      THEN Raised("missing_parameter",
                                  ValidateParameters(LastRegistered(name).params,
                                                     kwargs.keys), FALSE)
                      ELSE ToolExecute(LastRegistered(name), kwargs, out)
        /\ \E i \in 1..Len(registry) :
             GetAllFunctionDefinitions(registry)[i].name = name
        /\ \A i \in 1..Len(registry) :
             LET def == GetAllFunctionDefinitions(registry)[i]
             IN  def.name = name
                    => def = ToFunctionDefinition(name, LastRegistered(name).params)

\* C25: a name was registered twice, with two tools, and another name after
\* it
C25_Witness ==
    /\ Len(registrations) = 3
    /\ registrations[1].name = "SearchCustomers"
    /\ registrations[2].name = "SearchCustomers"
    /\ registrations[1].tool # registrations[2].tool
    /\ registrations[3].name = "Custom"
    /\ Keys(registry) = << "SearchCustomers", "Custom" >>

\* the positions of params that are flagged required
RequiredAt(params) == {i \in 1..Len(params) : params[i].required}

\* C26: the function definition of every registered tool has the parameter
\* names of its descriptor as its properties, and its required list is the
\* names of the parameters flagged required, once each, in descriptor
\* order.
C26_SchemaOfDescriptor ==
    \A i \in 1..Len(registry) :
        LET params == registry[i].tool.params
            def == GetAllFunctionDefinitions(registry)[i]
        IN  /\ DOMAIN def.properties = {params[j].name : j \in 1..Len(params)}
            /\ Len(def.required) = Cardinality(RequiredAt(params))
            /\ \A j \in 1..Len(def.required) :
                 \E k \in RequiredAt(params) :
                    /\ params[k].name = def.required[j]
                    /\ Cardinality({m \in RequiredAt(params) : m < k}) = j - 1

\* C26: the registry holds a tool whose first and third parameters are
\* optional and whose second and fourth are required, and a tool of
\* setup_tools with optional parameters
C26_Witness ==
    /\ \E i \in 1..Len(registry) :
        /\ registry[i].name = "Custom"
        /\ GetAllFunctionDefinitions(registry)[i].required = << "city", "date" >>
    /\ \E i \in 1..Len(registry) :
        /\ registry[i].name = "SearchInvoices"
        /\ GetAllFunctionDefinitions(registry)[i].required = << "BillerID" >>

\* C27: the round in which the model call raises appends no message: the
\* history after the step that handles the failed query is the history
\* just before the query.
C27_FailedRoundAppendsNothing ==
    [][ModelFails => history' = history]_vars

\* the tool calls of the round have been dispatched up to call n, in the
\* order of the response: the history ends with the assistant message of
\* the round and one tool message for each of the calls 1..n, in order
DispatchedUpTo(h, calls, n) ==
    /\ Len(h) > n
    /\ h[Len(h) - n] = ToolCallMessage(calls)
    /\ \A j \in 1..n :
        /\ h[Len(h) - n + j].role = "tool"
        /\ h[Len(h) - n + j].tool_call_id = calls[j].id
        /\ h[Len(h) - n + j].name = calls[j].name

\* C28: a pass of the for loop takes the next call of the response, after
\* the tool messages of all the calls before it, in order, have been
\* appended; it appends the tool message of its call; and the cache it
\* reads is the one the calls before it have left, which holds the rows of
\* the last query that returned some, one of the same round included.
C28_OneAtATimeInOrder ==
    [][Dispatch =>
        /\ DispatchedUpTo(history, response.calls, idx - 1)
        /\ inv'.id = response.calls[idx].id
        /\ inv'.name = response.calls[idx].name
        /\ inv'.before = cache
        /\ lastRows # << >> => inv'.before = CacheRecords(lastRows, outs[idx].iter)
        /\ inv'.dispatched =>
            /\ idx' = idx + 1
            /\ DispatchedUpTo(history', response.calls, idx)]_vars

\* C28: the first round of a session asked for a query and then for an
\* export without data; the query returned a row, and the export, second
\* to be dispatched, read it in the cache
C28_Witness ==
    /\ pc = "tools"
    /\ queries = 1
    /\ Len(history) = 5
    /\ idx = 3
    /\ DispatchedUpTo(history, response.calls, 2)
    /\ response.calls[1].name = "SearchCustomers"
    /\ lastRows = QueryRows(1)
    /\ inv.id = response.calls[2].id
    /\ inv.name = "ExportToExcel"
    /\ inv.data = << >>
    /\ inv.before = CacheRecords(QueryRows(1), TRUE)

\* C29: a pass of the for loop whose call carries arguments that do not
\* decode appends a tool message for the id of that call, goes on to the
\* next call of the round and does not end chat with an exception.
C29_DecodeFailureAbsorbed ==
    [][(Dispatch /\ ~Decode(response.calls[idx].arguments).ok) =>
        /\ Len(history') = Len(history) + 1
        /\ Last(history').role = "tool"
        /\ Last(history').tool_call_id = response.calls[idx].id
        /\ idx' = idx + 1
        /\ pc' = "tools"
        /\ result' # "raise"]_vars

\* a is the beginning of b
IsPrefix(a, b) == Len(a) <= Len(b) /\ SubSeq(b, 1, Len(a)) = a

\* the step is the handling of a reset request for the session k
ResetsSession(k) ==
    /\ opsLeft' = opsLeft - 1
    /\ lastOp'.op = "reset"
    /\ lastOp'.key = k

FirstResult ==
    Try(Registry, cache, response.calls[idx].name,
        Decode(response.calls[idx].arguments), outs[idx]).first

\* the pass of the for loop dispatches a tool other than the export, whose
\* executor returns a list of rows that is not empty
ReturnsRows ==
    /\ Dispatch
    /\ EntersTry(response.calls[idx])
    /\ response.calls[idx].name # "ExportToExcel"
    /\ ~FirstResult.raised
    /\ FirstResult.value.type = "list"
    /\ FirstResult.value.rows # << >>

\* rec is the record of row: its keys are the columns, and each column has
\* the value the row has in its place
RecordOf(rec, row) ==
    /\ DOMAIN rec = {Columns[j] : j \in 1..Len(Columns)}
    /\ \A j \in 1..Len(Columns) : rec[Columns[j]] = row[j]

\* C31: when a tool other than the export returns rows, the records of the
\* tool message and the records left in the cache are one sequence: one
\* record for each row, in the order of the rows, with the columns as keys
\* and the values of the row.
C31_PayloadIsCache ==
    [][ReturnsRows =>
        /\ Last(history').role = "tool"
        /\ Last(history').content.tag = "rows"
        /\ Last(history').content.rows = cache'
        /\ Len(cache') = Len(FirstResult.value.rows)
        /\ \A i \in 1..Len(cache') :
             RecordOf(cache'[i], FirstResult.value.rows[i])]_vars

\* the chat call has returned or raised, and each of its model queries was
\* followed by a round of tool calls that came to its end without one
\* invocation that returned
EveryRoundFailed ==
    /\ pc = "idle"
    /\ result # "none"
    /\ queries > 0
    /\ streak = queries

\* C32: the no-progress counter is 0 while the tool calls of a round are
\* dispatched, so the test at the end of the round sees 0 or 1 and never
\* the threshold; a chat call whose rounds all ended without a successful
\* invocation made max_iterations model queries and returned the
\* iteration-limit message.
C32_CounterIsZeroOrOne ==
    /\ consecutive_no_progress \in {0, 1}
    /\ pc = "tools" => consecutive_no_progress = 0
    /\ EveryRoundFailed => (result = "limit" /\ queries = max_iterations)

\* C32: a chat call with a budget of 8 rounds, none of which had a
\* successful invocation, has returned the iteration-limit message
C32_Witness ==
    /\ EveryRoundFailed
    /\ max_iterations = 8
    /\ streak = 8
    /\ consecutive_no_progress = 1
    /\ result = "limit"

\* the history h of an agent that was reset holds no system message and, if
\* it holds a message, begins with a user message
BeginsWithUser(h) ==
    /\ \A i \in 1..Len(h) : h[i].role # "system"
    /\ h # << >> => h[1].role = "user"

\* C33: the reset of a session leaves its history empty, and from then on
\* the history of the session holds no system message: whenever it is not
\* empty, and so at every model query, its first message is a user
\* message.
C33_NoSystemMessageAfterReset ==
    [][\A k \in agent_sessions' :
        /\ (ResetsSession(k) /\ k \in agent_sessions)
                => AgentOf(k)'.history = << >>
        /\ AgentOf(k)'.origin.set => BeginsWithUser(AgentOf(k)'.history)]_vars

\* C33: a session that was reset is about to query the model in a later
\* chat call, with a history that begins with the user message of that call
C33_Witness ==
    /\ self \in agent_sessions
    /\ origin.set
    /\ origin.roles[1] = "system"
    /\ AtModelQuery
    /\ queries = 0
    /\ Roles(history) = << "user" >>

\* what a tool message holds when the invocation returned: records, the
\* sentence for an empty result, or the mapping of an export
ReturnedTags == {"rows", "no_results", "dict"}

\* one of the last n messages of h is the tool message of an invocation
\* that returned
SomeReturned(h, n) ==
    \E j \in 1..n : h[Len(h) - n + j].role = "tool"
                    /\ h[Len(h) - n + j].content.tag \in ReturnedTags

\* C34: an invocation counts as returned exactly when its tool message
\* holds what it returned and not an error, and the round that ends resets
\* the run of rounds without progress exactly when one of its invocations
\* returned, be it an empty result or an export that reports failure.
C34_ProgressIsAnyReturn ==
    [][/\ (Dispatch /\ EntersTry(response.calls[idx])) =>
            /\ inv'.raised <=> Last(history').content.tag \notin ReturnedTags
            /\ any_success' <=> (any_success \/ ~inv'.raised)
       /\ EndRound =>
            /\ DispatchedUpTo(history, response.calls, Len(response.calls))
            /\ SomeReturned(history, Len(response.calls)) <=> streak' = 0
            /\ SomeReturned(history, Len(response.calls))
                    <=> consecutive_no_progress' = 0
            /\ SomeReturned(history, Len(response.calls)) => pc' = "loop"]_vars

\* C34: a round whose one invocation was an export with empty data and an
\* empty cache, which returned a mapping that reports failure, has ended
\* and counts as progress
C34_Witness ==
    /\ pc = "loop"
    /\ queries = 1
    /\ Len(response.calls) = 1
    /\ Last(history).role = "tool"
    /\ inv.id = response.calls[1].id
    /\ inv.name = "ExportToExcel"
    /\ inv.before = << >>
    /\ inv.data = << >>
    /\ ~inv.raised
    /\ Last(history).content.tag = "dict"
    /\ ~Last(history).content.success
    /\ streak = 0
    /\ consecutive_no_progress = 0

\* the call at hand is an export that the registry executed with the
\* arguments of the model, and the cache holds more records than its data
\* argument: lines 153-163 substitute the cache
FallbackApplies ==
    /\ response.calls[idx].name = "ExportToExcel"
    /\ ~FirstResult.raised
    /\ cache # << >>
    /\ LET kwargs == Decode(response.calls[idx].arguments).kwargs
       IN  \/ ~Truthy(kwargs)
           \/ kwargs.list /\ Len(GetData(kwargs)) < Len(cache)

\* C35: a dispatch to which the export fallback applies invokes the export
\* executor twice, with the data of the model and then with the cached
\* records, and appends one tool message, which reports the export of the
\* cached records; any other dispatch invokes an executor once at most and
\* appends one tool message.
C35_FallbackExecutesTwice ==
    [][(Dispatch /\ EntersTry(response.calls[idx])) =>
        /\ Len(history') = Len(history) + 1
        /\ Last(history').role = "tool"
        /\ Last(history').tool_call_id = response.calls[idx].id
        /\ IF FallbackApplies
           THEN /\ Len(inv'.execs) = 2
                /\ inv'.execs[1].tool = "ExportToExcel"
                /\ inv'.execs[1].data =
                        GetData(Decode(response.calls[idx].arguments).kwargs)
                /\ inv'.execs[2].tool = "ExportToExcel"
                /\ inv'.execs[2].data = cache
                /\ Last(history').content =
                        FormatResults(ExcelExecute(inv'.execs[2],
                                                   outs[idx]))
                /\ outs[idx].write =>
                        Last(history').content =
                            Content("dict", << >>, TRUE, Len(cache), "")
           ELSE Len(inv'.execs) <= 1]_vars

\* C35: an export whose data argument was empty was executed twice, the
\* second time with the two records of the cache, and its one tool message
\* reports two rows exported
C35_Witness ==
    /\ inv.name = "ExportToExcel"
    /\ inv.data = << >>
    /\ Len(inv.before) = 2
    /\ Len(inv.execs) = 2
    /\ inv.execs[1].data = << >>
    /\ inv.execs[2].data = inv.before
    /\ Last(history).tool_call_id = inv.id
    /\ Last(history).content = Content("dict", << >>, TRUE, 2, "")
    /\ \A i \in 1..(Len(history) - 1) : history[i].tool_call_id # inv.id

\* get_agent creates an agent and stores it under the session id sid of the
\* request, minting none: the table gains sid and nothing else, and the
\* agent under sid is a new one
StoredUnderSuppliedKey(sid) ==
    /\ lastOp'.returned = sid
    /\ ~lastOp'.known
    /\ created' = created + 1
    /\ agent_sessions' = agent_sessions \cup {sid}
    /\ self' = sid
    /\ Self'.history = << SystemMessage >>
    /\ Self'.cache = << >>
    /\ \A k \in agent_sessions : AgentOf(k)' = AgentOf(k)

\* C36: a chat request whose session id is supplied and is not in the
\* table has its new agent stored under exactly that id, whatever the id.
C36_SuppliedKeyKept ==
    [][\A sid \in (SessionIds \cup {Empty}) \ {Null} :
        (GetsAgent(sid) /\ sid \notin agent_sessions)
            => StoredUnderSuppliedKey(sid)]_vars

\* C36: a chat request whose session id is a string that is not empty and is
\* not in the table has its new agent stored under exactly that id, with a
\* history of one system message and an empty cache, also when the id was
\* in the table before and was deleted; for the empty string, as for no
\* session id, an id is minted and the empty string is never in the table.
C36_NonEmptyKeyKept ==
    [][/\ \A sid \in SessionIds \ {Null} :
            (GetsAgent(sid) /\ sid \notin agent_sessions)
                => StoredUnderSuppliedKey(sid)
       /\ GetsAgent(Empty) =>
            /\ lastOp'.returned \in {MintedKeys[lastOp'.biller][t] : t \in Instants}
            /\ agent_sessions' = agent_sessions \cup {lastOp'.returned}
       /\ Empty \notin agent_sessions']_vars

\* C36: the session id s1 was in the table and was deleted, and the chat
\* request that carried it afterwards got a new agent under s1
C36_Witness ==
    /\ lastOp.op = "chat"
    /\ lastOp.key = "s1"
    /\ ~lastOp.known
    /\ lastOp.returned = "s1"
    /\ "s1" \in deleted
    /\ self = "s1"
    /\ chatsLeft = 1
    /\ history = << SystemMessage >>
    /\ cache = << >>
    /\ created = 2

ListsTools ==
    /\ opsLeft' = opsLeft - 1
    /\ lastOp'.op = "tools"

\* C38: a request for the names of the tools leaves the table as it was:
\* the same session ids, each with the agent it had, and the id under
\* which the temporary agent was stored not among them.
C38_ListToolsKeepsTable ==
    [][ListsTools =>
        /\ agent_sessions' = agent_sessions
        /\ lastOp'.returned \notin agent_sessions'
        /\ \A k \in agent_sessions : AgentOf(k)' = AgentOf(k)
        /\ self' = self]_vars


====
